---- MODULE Spec2Model ----
(***************************************************************************)
(* Model of main/app_main.c: a Wi-Fi provisioning firmware.  Three         *)
(* execution contexts share the provisioning manager: the boot path        *)
(* app_main, the worker button_task and the event loop that runs           *)
(* event_handler; button_isr_handler feeds the worker through a queue.     *)
(* The provisioning manager, the network stack, the key-value store and    *)
(* the GPIO pin are the environment: their return values and the pin level *)
(* are chosen nondeterministically, and the calls made to them are         *)
(* recorded per calling context.                                           *)
(***************************************************************************)
EXTENDS Naturals, Sequences, FiniteSets

(* ---------------------------------------------------------------------- *)
(* Bounds of the model                                                     *)
(* ---------------------------------------------------------------------- *)

\* rising edges the pin produces in one run (first edges and bounce edges)
MaxEdges == 2

\* events the event loop delivers in one run
MaxEvents == 2

\* rising edges of a run that fills the button queue
MaxBurst == 8

(* ---------------------------------------------------------------------- *)
(* Program constants                                                       *)
(* ---------------------------------------------------------------------- *)

BUTTON_GPIO == 32

DEBOUNCE_MS == 50

\* xQueueCreate(5, sizeof(uint32_t))
QueueLength == 5

\* static char service_name[12]
ServiceNameSize == 12

\* char payload[150]
PayloadSize == 150

PROV_QR_VERSION == <<"v", "1">>

PROV_TRANSPORT_BLE == <<"b", "l", "e">>

pop == <<"a", "b", "c", "d", "1", "2", "3", "4">>

ESP_OK == "ESP_OK"

ESP_FAIL == "ESP_FAIL"

ESP_ERR_NVS_NO_FREE_PAGES == "ESP_ERR_NVS_NO_FREE_PAGES"

ESP_ERR_NVS_NEW_VERSION_FOUND == "ESP_ERR_NVS_NEW_VERSION_FOUND"

\* the two tasks that run code of this file
Tasks == {"main", "button"}

\* the contexts that call the collaborators
Contexts == {"main", "button", "event"}

\* hardware addresses the boot draws from (bytes 0..5 are mac[1]..mac[6])
MacSamples ==
    { <<0, 17, 34, 171, 205, 239>>,
      <<255, 255, 255, 0, 9, 160>> }

\* byte values the wider address draws use: they render 00, 09, AB and FF
ByteSamples == {0, 9, 171, 255}

\* hardware addresses with every byte drawn from ByteSamples
WideMacs == [1..6 -> ByteSamples]

\* the events the two collaborators can post to the default loop
Events ==
    { <<"WIFI_PROV_EVENT", "WIFI_PROV_START">>,
      <<"WIFI_PROV_EVENT", "WIFI_PROV_CRED_RECV">>,
      <<"WIFI_PROV_EVENT", "WIFI_PROV_CRED_FAIL">>,
      <<"WIFI_PROV_EVENT", "WIFI_PROV_CRED_SUCCESS">>,
      <<"WIFI_PROV_EVENT", "WIFI_PROV_END">>,
      <<"WIFI_EVENT", "WIFI_EVENT_STA_START">>,
      <<"WIFI_EVENT", "WIFI_EVENT_STA_DISCONNECTED">>,
      <<"IP_EVENT", "IP_EVENT_STA_GOT_IP">>,
      <<"IP_EVENT", "IP_EVENT_STA_LOST_IP">> }

(* ---------------------------------------------------------------------- *)
(* Pure helpers: snprintf and the two formatted strings                    *)
(* ---------------------------------------------------------------------- *)

HexChars ==
    <<"0", "1", "2", "3", "4", "5", "6", "7",
      "8", "9", "A", "B", "C", "D", "E", "F">>

\* %02X of one byte
Hex02X(b) == <<HexChars[(b \div 16) + 1], HexChars[(b % 16) + 1]>>

\* snprintf(buf, max, ...): at most max-1 characters are stored
Snprintf(max, s) ==
    IF max = 0 THEN <<>>
    ELSE IF Len(s) <= max - 1 THEN s ELSE SubSeq(s, 1, max - 1)

\* the name formatted from the first three bytes of the address
name_from_leading_bytes(m, max) ==
    Snprintf(max, <<"P", "R", "O", "V", "_">>
                  \o Hex02X(m[1]) \o Hex02X(m[2]) \o Hex02X(m[3]))

\* get_device_service_name(name, max) for the address m
get_device_service_name(m, max) ==
    Snprintf(max, <<"P", "R", "O", "V", "_">>
                  \o Hex02X(m[4]) \o Hex02X(m[5]) \o Hex02X(m[6]))

\* the payload formatted into a buffer too small for it: char payload[64]
PayloadInSmallBuffer(name) ==
    Snprintf(64,
        <<"{", "\"", "v", "e", "r", "\"", ":", "\"">> \o PROV_QR_VERSION
        \o <<"\"", ",", "\"", "n", "a", "m", "e", "\"", ":", "\"">> \o name
        \o <<"\"", ",", "\"", "p", "o", "p", "\"", ":", "\"">> \o pop
        \o <<"\"", ",", "\"", "t", "r", "a", "n", "s", "p", "o", "r", "t",
             "\"", ":", "\"">> \o PROV_TRANSPORT_BLE
        \o <<"\"", "}">>)

\* the payload start_provisioning formats into payload[150]
Payload(name) ==
    Snprintf(PayloadSize,
        <<"{", "\"", "v", "e", "r", "\"", ":", "\"">> \o PROV_QR_VERSION
        \o <<"\"", ",", "\"", "n", "a", "m", "e", "\"", ":", "\"">> \o name
        \o <<"\"", ",", "\"", "p", "o", "p", "\"", ":", "\"">> \o pop
        \o <<"\"", ",", "\"", "t", "r", "a", "n", "s", "p", "o", "r", "t",
             "\"", ":", "\"">> \o PROV_TRANSPORT_BLE
        \o <<"\"", "}">>)

(* ---------------------------------------------------------------------- *)
(* State                                                                   *)
(* ---------------------------------------------------------------------- *)

VARIABLES
    pc,             \* pc[t]: where task t is
    aborted,        \* an ESP_ERROR_CHECK failed: the program has stopped
    faulty,         \* whether the collaborators may return errors in this run
    nvs_ready,      \* the key-value store is initialised
    registered,     \* event_handler is registered with the default loop
    mac,            \* the station hardware address
    service_name,   \* static char service_name[12]
    button_queue,   \* the items of button_queue
    queue_created,  \* button_queue != NULL
    isr_added,      \* button_isr_handler is attached to the pin
    gpio_level,     \* the level of BUTTON_GPIO
    window_open,    \* a press began and the worker has not sampled since
    press_triggers, \* restarts triggered since the current press began
    edges,          \* rising edges produced so far
    dropped,        \* edges the full queue refused (errQUEUE_FULL)
    events,         \* events delivered so far
    sta_starts,     \* WIFI_EVENT_STA_START events delivered so far
    creds_stored,   \* the provisioning manager holds credentials
    provisioned,    \* app_main's local `provisioned`
    io_num,         \* button_task's local io_num
    mgr_state,      \* the provisioning manager: uninit, idle, started, stopped
    calls,          \* calls[c]: the collaborator calls context c has made
    restarts        \* restart sequences button_task has begun

vars ==
    <<pc, aborted, faulty, nvs_ready, registered, mac, service_name,
      button_queue, queue_created, isr_added, gpio_level, window_open,
      press_triggers, edges, dropped, events, sta_starts, creds_stored,
      provisioned, io_num, mgr_state, calls, restarts>>

\* the variables of the pin, its queue and the worker's bookkeeping
button_vars ==
    <<button_queue, queue_created, isr_added, gpio_level, window_open,
      press_triggers, edges, dropped, io_num, restarts>>

\* the variables only app_main's setup writes
boot_vars == <<nvs_ready, registered, mac, service_name, provisioned>>

\* one recorded call; ret is the value returned where the caller reads it or
\* the claims speak of it, and ESP_OK for a call whose result is discarded
Call(fn, args, ret) == [fn |-> fn, args |-> args, ret |-> ret]

\* context c records a call
Record(c, fn, args, ret) ==
    calls' = [calls EXCEPT ![c] = Append(@, Call(fn, args, ret))]

\* the values a collaborator may return in this run
Returns == IF faulty THEN {ESP_OK, ESP_FAIL} ELSE {ESP_OK}

\* the values nvs_flash_init may return in this run
NvsReturns ==
    IF faulty
    THEN {ESP_OK, ESP_FAIL, ESP_ERR_NVS_NO_FREE_PAGES,
          ESP_ERR_NVS_NEW_VERSION_FOUND}
    ELSE {ESP_OK}

\* a task can take a step
Running(t, at) == ~aborted /\ pc[t] = at

Goto(t, to) == pc' = [pc EXCEPT ![t] = to]

Init ==
    /\ pc = [t \in Tasks |-> IF t = "main" THEN "nvs_init" ELSE "none"]
    /\ aborted = FALSE
    /\ faulty \in BOOLEAN
    /\ nvs_ready = FALSE
    /\ registered = FALSE
    /\ mac \in MacSamples
    /\ service_name = <<>>
    /\ button_queue = <<>>
    /\ queue_created = FALSE
    /\ isr_added = FALSE
    /\ gpio_level = 0
    /\ window_open = FALSE
    /\ press_triggers = 0
    /\ edges = 0
    /\ dropped = 0
    /\ events = 0
    /\ sta_starts = 0
    /\ creds_stored \in BOOLEAN
    /\ provisioned = FALSE
    /\ io_num = 0
    /\ mgr_state = "uninit"
    /\ calls = [c \in Contexts |-> <<>>]
    /\ restarts = 0

(* ---------------------------------------------------------------------- *)
(* app_main: the boot path                                                 *)
(* ---------------------------------------------------------------------- *)

\* lines 117-121, first call: nvs_flash_init() and the test of its result
nvs_flash_init_first ==
    /\ Running("main", "nvs_init")
    /\ \E ret \in NvsReturns :
        IF ret = ESP_ERR_NVS_NO_FREE_PAGES \/ ret = ESP_ERR_NVS_NEW_VERSION_FOUND
        THEN /\ Goto("main", "nvs_erase")
             /\ nvs_ready' = FALSE
        ELSE /\ Goto("main", "event_setup")
             /\ nvs_ready' = (ret = ESP_OK)
    /\ UNCHANGED <<aborted, faulty, registered, mac, service_name,
                   provisioned, button_vars, events, sta_starts, creds_stored,
                   mgr_state, calls>>

\* line 119: ESP_ERROR_CHECK(nvs_flash_erase())
nvs_flash_erase ==
    /\ Running("main", "nvs_erase")
    /\ \E ret \in Returns :
        IF ret = ESP_OK
        THEN Goto("main", "nvs_reinit") /\ aborted' = FALSE
        ELSE aborted' = TRUE /\ pc' = pc
    /\ UNCHANGED <<faulty, boot_vars, button_vars, events, sta_starts,
                   creds_stored, mgr_state, calls>>

\* line 120: ESP_ERROR_CHECK(nvs_flash_init())
nvs_flash_init_second ==
    /\ Running("main", "nvs_reinit")
    /\ \E ret \in Returns :
        IF ret = ESP_OK
        THEN Goto("main", "event_setup") /\ aborted' = FALSE /\ nvs_ready' = TRUE
        ELSE aborted' = TRUE /\ pc' = pc /\ nvs_ready' = nvs_ready
    /\ UNCHANGED <<faulty, registered, mac, service_name, provisioned,
                   button_vars, events, sta_starts, creds_stored, mgr_state,
                   calls>>

\* lines 124-131: the default loop is created and event_handler registered
register_handlers ==
    /\ Running("main", "event_setup")
    /\ registered' = TRUE
    /\ Goto("main", "wifi_init")
    /\ UNCHANGED <<aborted, faulty, nvs_ready, mac, service_name, provisioned,
                   button_vars, events, sta_starts, creds_stored, mgr_state,
                   calls>>

\* lines 134-136: ESP_ERROR_CHECK(esp_wifi_init(&cfg))
esp_wifi_init ==
    /\ Running("main", "wifi_init")
    /\ \E ret \in Returns :
        IF ret = ESP_OK
        THEN Goto("main", "service_name") /\ aborted' = FALSE
        ELSE aborted' = TRUE /\ pc' = pc
    /\ UNCHANGED <<faulty, boot_vars, button_vars, events, sta_starts,
                   creds_stored, mgr_state, calls>>

\* line 139: get_device_service_name(service_name, sizeof(service_name))
generate_service_name ==
    /\ Running("main", "service_name")
    /\ service_name' = get_device_service_name(mac, ServiceNameSize)
    /\ Goto("main", "queue_create")
    /\ UNCHANGED <<aborted, faulty, nvs_ready, registered, mac, provisioned,
                   button_vars, events, sta_starts, creds_stored, mgr_state,
                   calls>>

\* the results of xQueueCreate in this run: a queue (TRUE) or NULL (FALSE)
QueueCreateReturns == IF faulty THEN {TRUE, FALSE} ELSE {TRUE}

\* lines 142-151: the pin is configured and button_queue is assigned the
\* result of xQueueCreate, which the code does not test
queue_create ==
    /\ Running("main", "queue_create")
    /\ queue_created' \in QueueCreateReturns
    /\ button_queue' = <<>>
    /\ Goto("main", "task_create")
    /\ UNCHANGED <<aborted, faulty, boot_vars, isr_added, gpio_level,
                   window_open, press_triggers, edges, dropped, io_num,
                   restarts, events, sta_starts, creds_stored, mgr_state,
                   calls>>

\* the results of xTaskCreate in this run: the task is created (TRUE) or
\* not (FALSE)
TaskCreateReturns == IF faulty THEN {TRUE, FALSE} ELSE {TRUE}

\* line 152: xTaskCreate(button_task, ...), whose result the code does not
\* test.  A created worker stands before its call of xQueueReceive (line
\* 102); app_main goes on to line 153 either way.
task_create ==
    /\ Running("main", "task_create")
    /\ \E created \in TaskCreateReturns :
        pc' = [pc EXCEPT !["main"] = "isr_add",
                         !["button"] = IF created THEN "recv" ELSE "none"]
    /\ UNCHANGED <<aborted, faulty, boot_vars, button_vars, events,
                   sta_starts, creds_stored, mgr_state, calls>>

\* lines 153-154: the ISR service is installed and the handler attached
isr_handler_add ==
    /\ Running("main", "isr_add")
    /\ isr_added' = TRUE
    /\ Goto("main", "is_provisioned")
    /\ UNCHANGED <<aborted, faulty, boot_vars, button_queue, queue_created,
                   gpio_level, window_open, press_triggers, edges, dropped,
                   io_num, restarts, events, sta_starts, creds_stored,
                   mgr_state, calls>>

\* the branch of line 158 with the test of the out-parameter left out
BranchOnQueryErrorOnly(ret, prov) == ret # ESP_OK

\* the branch of line 158 with the negation of `provisioned` forgotten
BranchWithoutNegation(ret, prov) == ret # ESP_OK \/ prov

\* the branch of line 158 on the query's return value and out-parameter
StartsInitialProvisioning(ret, prov) == ret # ESP_OK \/ ~prov

\* lines 157-158: wifi_prov_mgr_is_provisioned(&provisioned) and the branch
is_provisioned ==
    /\ Running("main", "is_provisioned")
    /\ \E ret \in Returns :
        LET prov == IF ret = ESP_OK THEN creds_stored ELSE provisioned IN
        /\ Record("main", "wifi_prov_mgr_is_provisioned", <<>>, ret)
        /\ provisioned' = prov
        /\ IF StartsInitialProvisioning(ret, prov)
           THEN Goto("main", "sp_init")
           ELSE Goto("main", "set_mode")
    /\ UNCHANGED <<aborted, faulty, nvs_ready, registered, mac, service_name,
                   button_vars, events, sta_starts, creds_stored, mgr_state>>

\* line 163: esp_wifi_set_mode(WIFI_MODE_STA), its result unused
esp_wifi_set_mode ==
    /\ Running("main", "set_mode")
    /\ Record("main", "esp_wifi_set_mode", <<"WIFI_MODE_STA">>, ESP_OK)
    /\ Goto("main", "wifi_start")
    /\ UNCHANGED <<aborted, faulty, boot_vars, button_vars, events,
                   sta_starts, creds_stored, mgr_state>>

\* line 164: esp_wifi_start(), its result unused; then the idle loop
esp_wifi_start ==
    /\ Running("main", "wifi_start")
    /\ Record("main", "esp_wifi_start", <<>>, ESP_OK)
    /\ Goto("main", "loop")
    /\ UNCHANGED <<aborted, faulty, boot_vars, button_vars, events,
                   sta_starts, creds_stored, mgr_state>>

(* ---------------------------------------------------------------------- *)
(* start_provisioning and stop_provisioning, run by the calling task       *)
(* ---------------------------------------------------------------------- *)

\* the provisioning manager after a successful wifi_prov_mgr_init
MgrAfterInit(st) == IF st = "uninit" THEN "idle" ELSE st

\* the provisioning manager after wifi_prov_mgr_stop_provisioning
MgrAfterStop(st) == IF st = "started" THEN "stopped" ELSE st

\* every caller of start_provisioning ends in an idle loop
AfterStartIdles(t) == "loop"

\* where a task continues when start_provisioning returns
AfterStart(t) == IF t = "main" THEN "loop" ELSE "recv"

\* line 73: ESP_ERROR_CHECK(wifi_prov_mgr_init(config))
wifi_prov_mgr_init(t) ==
    /\ Running(t, "sp_init")
    /\ \E ret \in Returns :
        /\ Record(t, "wifi_prov_mgr_init", <<>>, ret)
        /\ IF ret = ESP_OK
           THEN /\ Goto(t, "sp_start")
                /\ mgr_state' = MgrAfterInit(mgr_state)
                /\ aborted' = FALSE
           ELSE /\ aborted' = TRUE
                /\ UNCHANGED <<pc, mgr_state>>
    /\ UNCHANGED <<faulty, boot_vars, button_vars, events, sta_starts,
                   creds_stored>>

\* a start call with the proof-of-possession and the service name swapped
start_with_swapped_arguments(t) ==
    /\ Running(t, "sp_start")
    /\ \E ret \in Returns :
        /\ Record(t, "wifi_prov_mgr_start_provisioning",
                  <<service_name, pop>>, ret)
        /\ IF ret = ESP_OK
           THEN /\ Goto(t, "sp_qr")
                /\ mgr_state' = "started"
                /\ aborted' = FALSE
           ELSE /\ aborted' = TRUE
                /\ UNCHANGED <<pc, mgr_state>>
    /\ UNCHANGED <<faulty, boot_vars, button_vars, events, sta_starts,
                   creds_stored>>

\* line 74: ESP_ERROR_CHECK(wifi_prov_mgr_start_provisioning(.., pop,
\* service_name, NULL))
wifi_prov_mgr_start_provisioning(t) ==
    /\ Running(t, "sp_start")
    /\ \E ret \in Returns :
        /\ Record(t, "wifi_prov_mgr_start_provisioning",
                  <<pop, service_name>>, ret)
        /\ IF ret = ESP_OK
           THEN /\ Goto(t, "sp_qr")
                /\ mgr_state' = "started"
                /\ aborted' = FALSE
           ELSE /\ aborted' = TRUE
                /\ UNCHANGED <<pc, mgr_state>>
    /\ UNCHANGED <<faulty, boot_vars, button_vars, events, sta_starts,
                   creds_stored>>

\* lines 76-82: the payload is formatted and handed to esp_qrcode_generate
esp_qrcode_generate(t) ==
    /\ Running(t, "sp_qr")
    /\ Record(t, "esp_qrcode_generate", <<Payload(service_name)>>, ESP_OK)
    /\ Goto(t, AfterStart(t))
    /\ UNCHANGED <<aborted, faulty, boot_vars, button_vars, events,
                   sta_starts, creds_stored, mgr_state>>

\* a stop_provisioning that forgets the reset: stop, then deinit
stop_without_reset ==
    /\ Running("button", "stop")
    /\ Record("button", "wifi_prov_mgr_stop_provisioning", <<>>, ESP_OK)
    /\ mgr_state' = MgrAfterStop(mgr_state)
    /\ Goto("button", "deinit")
    /\ UNCHANGED <<aborted, faulty, boot_vars, button_vars, events,
                   sta_starts, creds_stored>>

\* line 87: wifi_prov_mgr_stop_provisioning(), which returns nothing
wifi_prov_mgr_stop_provisioning ==
    /\ Running("button", "stop")
    /\ Record("button", "wifi_prov_mgr_stop_provisioning", <<>>, ESP_OK)
    /\ mgr_state' = MgrAfterStop(mgr_state)
    /\ Goto("button", "reset")
    /\ UNCHANGED <<aborted, faulty, boot_vars, button_vars, events,
                   sta_starts, creds_stored>>

\* line 88: wifi_prov_mgr_reset_provisioning(), its result unused
wifi_prov_mgr_reset_provisioning ==
    /\ Running("button", "reset")
    /\ \E ret \in Returns :
        /\ Record("button", "wifi_prov_mgr_reset_provisioning", <<>>, ret)
        /\ creds_stored' = IF ret = ESP_OK THEN FALSE ELSE creds_stored
    /\ Goto("button", "deinit")
    /\ UNCHANGED <<aborted, faulty, boot_vars, button_vars, events,
                   sta_starts, mgr_state>>

\* line 89: wifi_prov_mgr_deinit()
wifi_prov_mgr_deinit ==
    /\ Running("button", "deinit")
    /\ Record("button", "wifi_prov_mgr_deinit", <<>>, ESP_OK)
    /\ mgr_state' = "uninit"
    /\ Goto("button", "sp_init")
    /\ UNCHANGED <<aborted, faulty, boot_vars, button_vars, events,
                   sta_starts, creds_stored>>

(* ---------------------------------------------------------------------- *)
(* The button: the pin, button_isr_handler and button_task                 *)
(* ---------------------------------------------------------------------- *)

\* a handler that overwrites the queue instead of appending to it
isr_overwrites_queue(q) == <<BUTTON_GPIO>>

\* a handler that appends without regard to the queue's capacity
isr_ignores_capacity(q) == Append(q, BUTTON_GPIO)

\* lines 93-96: xQueueSendFromISR(button_queue, &gpio_num, NULL) on queue q
button_isr_handler(q) ==
    IF Len(q) < QueueLength THEN Append(q, BUTTON_GPIO) ELSE q

\* the attached handler hands the NULL button_queue to xQueueSendFromISR,
\* which fails its assertion on the queue handle (or, with assertions
\* compiled out, writes through the null pointer): the program stops
SendsToNull == isr_added /\ ~queue_created

\* the queue after a rising edge: the handler runs once it is attached
AfterEdge(q) ==
    IF isr_added /\ queue_created THEN button_isr_handler(q) ELSE q

\* xQueueSendFromISR finds no room in q: the handler's send fails
Refused(q) == isr_added /\ queue_created /\ Len(q) >= QueueLength

\* the button is pressed: the first rising edge of a press, in a run of at
\* most `bound` edges
PressWithin(bound) ==
    /\ ~aborted
    /\ gpio_level = 0
    /\ edges < bound
    /\ gpio_level' = 1
    /\ edges' = edges + 1
    /\ window_open' = TRUE
    /\ press_triggers' = 0
    /\ button_queue' = AfterEdge(button_queue)
    /\ dropped' = IF Refused(button_queue) THEN dropped + 1 ELSE dropped
    /\ aborted' = SendsToNull
    /\ UNCHANGED <<pc, faulty, boot_vars, queue_created, isr_added, io_num,
                   restarts, events, sta_starts, creds_stored, mgr_state,
                   calls>>

Press == PressWithin(MaxEdges)

\* the contact bounces: one more rising edge of the same press, while the
\* worker has not yet sampled the pin, in a run of at most `bound` edges
BounceWithin(bound) ==
    /\ ~aborted
    /\ gpio_level = 1
    /\ window_open
    /\ edges < bound
    /\ edges' = edges + 1
    /\ button_queue' = AfterEdge(button_queue)
    /\ dropped' = IF Refused(button_queue) THEN dropped + 1 ELSE dropped
    /\ aborted' = SendsToNull
    /\ UNCHANGED <<pc, faulty, boot_vars, queue_created, isr_added,
                   gpio_level, window_open, press_triggers, io_num, restarts,
                   events, sta_starts, creds_stored, mgr_state, calls>>

Bounce == BounceWithin(MaxEdges)

\* the button is released
Release ==
    /\ ~aborted
    /\ gpio_level = 1
    /\ gpio_level' = 0
    /\ window_open' = FALSE
    /\ UNCHANGED <<pc, aborted, faulty, boot_vars, button_queue,
                   queue_created, isr_added, press_triggers, edges, dropped,
                   io_num, restarts, events, sta_starts, creds_stored,
                   mgr_state, calls>>

\* line 102: xQueueReceive(button_queue, &io_num, portMAX_DELAY).  With a
\* queue the worker blocks until an item is there and takes it; with
\* button_queue NULL the call fails its assertion on the queue handle (or,
\* with assertions compiled out, reads through the null pointer) and the
\* program stops.
xQueueReceive ==
    /\ Running("button", "recv")
    /\ IF queue_created
       THEN /\ button_queue # <<>>
            /\ io_num' = Head(button_queue)
            /\ button_queue' = Tail(button_queue)
            /\ Goto("button", "delay")
            /\ aborted' = FALSE
       ELSE /\ aborted' = TRUE
            /\ UNCHANGED <<io_num, button_queue, pc>>
    /\ UNCHANGED <<faulty, boot_vars, queue_created, isr_added, gpio_level,
                   window_open, press_triggers, edges, dropped, restarts,
                   events, sta_starts, creds_stored, mgr_state, calls>>

\* the test of line 104 with the sampled level disregarded
ConfirmedWhateverLevel(level) == TRUE

\* line 104: the test of gpio_get_level(io_num)
Confirmed(level) == level # 0

\* lines 103-105: the debounce delay ends and the pin is sampled once
sample_level ==
    /\ Running("button", "delay")
    /\ window_open' = FALSE
    /\ IF Confirmed(gpio_level)
       THEN /\ Goto("button", "disconnect")
            /\ restarts' = restarts + 1
            /\ press_triggers' = press_triggers + 1
       ELSE /\ Goto("button", "recv")
            /\ UNCHANGED <<restarts, press_triggers>>
    /\ UNCHANGED <<aborted, faulty, boot_vars, button_queue, queue_created,
                   isr_added, gpio_level, edges, dropped, io_num, events,
                   sta_starts, creds_stored, mgr_state, calls>>

\* line 106: esp_wifi_disconnect(), its result unused
esp_wifi_disconnect ==
    /\ Running("button", "disconnect")
    /\ Record("button", "esp_wifi_disconnect", <<>>, ESP_OK)
    /\ Goto("button", "stop")
    /\ UNCHANGED <<aborted, faulty, boot_vars, button_vars, events,
                   sta_starts, creds_stored, mgr_state>>

(* ---------------------------------------------------------------------- *)
(* event_handler, run by the default event loop                            *)
(* ---------------------------------------------------------------------- *)

\* lines 129-131: the events event_handler is registered for
Registered(e) ==
    \/ e[1] = "WIFI_PROV_EVENT"
    \/ e[1] = "WIFI_EVENT"
    \/ e = <<"IP_EVENT", "IP_EVENT_STA_GOT_IP">>

\* the test of line 51 with the event id forgotten
AnyWifiEvent(e) == e[1] = "WIFI_EVENT"

\* the test of line 51 widened to reconnect when the station is disconnected
StaStartOrDisconnected(e) ==
    /\ e[1] = "WIFI_EVENT"
    /\ e[2] \in {"WIFI_EVENT_STA_START", "WIFI_EVENT_STA_DISCONNECTED"}

\* line 51: the event that makes event_handler call esp_wifi_connect
IsStaStart(e) == e[1] = "WIFI_EVENT" /\ e[2] = "WIFI_EVENT_STA_START"

\* lines 31-57: the loop delivers event e to event_handler
event_handler(e) ==
    /\ ~aborted
    /\ registered
    /\ Registered(e)
    /\ events < MaxEvents
    /\ events' = events + 1
    /\ sta_starts' = IF e = <<"WIFI_EVENT", "WIFI_EVENT_STA_START">>
                     THEN sta_starts + 1 ELSE sta_starts
    /\ IF IsStaStart(e)
       THEN Record("event", "esp_wifi_connect", <<>>, ESP_OK)
       ELSE calls' = calls
    /\ UNCHANGED <<pc, aborted, faulty, boot_vars, button_vars, creds_stored,
                   mgr_state>>

(* ---------------------------------------------------------------------- *)
(* The specification                                                       *)
(* ---------------------------------------------------------------------- *)

Next ==
    \/ nvs_flash_init_first
    \/ nvs_flash_erase
    \/ nvs_flash_init_second
    \/ register_handlers
    \/ esp_wifi_init
    \/ generate_service_name
    \/ queue_create
    \/ task_create
    \/ isr_handler_add
    \/ is_provisioned
    \/ esp_wifi_set_mode
    \/ esp_wifi_start
    \/ \E t \in Tasks : wifi_prov_mgr_init(t)
    \/ \E t \in Tasks : wifi_prov_mgr_start_provisioning(t)
    \/ \E t \in Tasks : esp_qrcode_generate(t)
    \/ wifi_prov_mgr_stop_provisioning
    \/ wifi_prov_mgr_reset_provisioning
    \/ wifi_prov_mgr_deinit
    \/ Press
    \/ Bounce
    \/ Release
    \/ xQueueReceive
    \/ sample_level
    \/ esp_wifi_disconnect
    \/ \E e \in Events : event_handler(e)

Spec == Init /\ [][Next]_vars

\* lines 99-112: the steps of button_task
button_task ==
    \/ xQueueReceive
    \/ sample_level
    \/ esp_wifi_disconnect
    \/ wifi_prov_mgr_stop_provisioning
    \/ wifi_prov_mgr_reset_provisioning
    \/ wifi_prov_mgr_deinit
    \/ wifi_prov_mgr_init("button")
    \/ wifi_prov_mgr_start_provisioning("button")
    \/ esp_qrcode_generate("button")

\* the scheduler runs button_task whenever it is ready: it is never starved
FairSpec == Spec /\ WF_vars(button_task)

\* a boot in which no collaborator fails
QueueInit == Init /\ ~faulty

\* the steps of the program and of its environment when no collaborator fails
LiveNext ==
    \/ nvs_flash_init_first
    \/ register_handlers
    \/ esp_wifi_init
    \/ generate_service_name
    \/ queue_create
    \/ task_create
    \/ isr_handler_add
    \/ is_provisioned
    \/ esp_wifi_set_mode
    \/ esp_wifi_start
    \/ wifi_prov_mgr_init("main")
    \/ wifi_prov_mgr_start_provisioning("main")
    \/ esp_qrcode_generate("main")
    \/ button_task
    \/ Press
    \/ Bounce
    \/ Release
    \/ \E e \in Events : event_handler(e)

\* fault-free runs in which the scheduler never starves button_task
LiveSpec == QueueInit /\ [][LiveNext]_vars /\ WF_vars(button_task)

BurstPress == PressWithin(MaxBurst)

BurstBounce == BounceWithin(MaxBurst)

\* the boot path, the worker and the pin, with no event delivered
QueueNext ==
    \/ nvs_flash_init_first
    \/ register_handlers
    \/ esp_wifi_init
    \/ generate_service_name
    \/ queue_create
    \/ task_create
    \/ isr_handler_add
    \/ is_provisioned
    \/ esp_wifi_set_mode
    \/ esp_wifi_start
    \/ wifi_prov_mgr_init("main")
    \/ wifi_prov_mgr_start_provisioning("main")
    \/ esp_qrcode_generate("main")
    \/ button_task
    \/ BurstPress
    \/ BurstBounce
    \/ Release

\* fault-free runs with enough rising edges to fill the button queue
QueueSpec == QueueInit /\ [][QueueNext]_vars

\* a fault-free boot of a device whose address has every byte drawn from
\* ByteSamples
NameInit ==
    /\ mac \in WideMacs
    /\ faulty = FALSE
    /\ creds_stored \in BOOLEAN
    /\ pc = [t \in Tasks |-> IF t = "main" THEN "nvs_init" ELSE "none"]
    /\ aborted = FALSE
    /\ nvs_ready = FALSE
    /\ registered = FALSE
    /\ service_name = <<>>
    /\ button_queue = <<>>
    /\ queue_created = FALSE
    /\ isr_added = FALSE
    /\ gpio_level = 0
    /\ window_open = FALSE
    /\ press_triggers = 0
    /\ edges = 0
    /\ dropped = 0
    /\ events = 0
    /\ sta_starts = 0
    /\ provisioned = FALSE
    /\ io_num = 0
    /\ mgr_state = "uninit"
    /\ calls = [c \in Contexts |-> <<>>]
    /\ restarts = 0

\* app_main from its first line to its idle loop
NameNext ==
    \/ nvs_flash_init_first
    \/ register_handlers
    \/ esp_wifi_init
    \/ generate_service_name
    \/ queue_create
    \/ task_create
    \/ isr_handler_add
    \/ is_provisioned
    \/ esp_wifi_set_mode
    \/ esp_wifi_start
    \/ wifi_prov_mgr_init("main")
    \/ wifi_prov_mgr_start_provisioning("main")
    \/ esp_qrcode_generate("main")

\* the boot path run for every drawn address
NameSpec == NameInit /\ [][NameNext]_vars

\* the contents service_name[12] can hold that the generator's format can
\* leave there: every initial part, of 0 to 11 characters, of a generated name
PayloadNames ==
    { SubSeq(get_device_service_name(m, ServiceNameSize), 1, k) :
        m \in {w \in WideMacs : w[1] = 0 /\ w[2] = 0 /\ w[3] = 0},
        k \in 0..(ServiceNameSize - 1) }

\* start_provisioning on the boot path, about to format its payload, with
\* the service name drawn from PayloadNames
PayloadInit ==
    /\ service_name \in PayloadNames
    /\ pc = [t \in Tasks |-> IF t = "main" THEN "sp_qr" ELSE "recv"]
    /\ calls = [c \in Contexts |->
                  IF c = "main"
                  THEN <<Call("wifi_prov_mgr_is_provisioned", <<>>, ESP_OK),
                         Call("wifi_prov_mgr_init", <<>>, ESP_OK),
                         Call("wifi_prov_mgr_start_provisioning",
                              <<pop, service_name>>, ESP_OK)>>
                  ELSE <<>>]
    /\ mgr_state = "started"
    /\ aborted = FALSE
    /\ faulty = FALSE
    /\ nvs_ready = TRUE
    /\ registered = TRUE
    /\ mac = <<0, 0, 0, 0, 0, 0>>
    /\ button_queue = <<>>
    /\ queue_created = TRUE
    /\ isr_added = TRUE
    /\ gpio_level = 0
    /\ window_open = FALSE
    /\ press_triggers = 0
    /\ edges = 0
    /\ dropped = 0
    /\ events = 0
    /\ sta_starts = 0
    /\ creds_stored = FALSE
    /\ provisioned = FALSE
    /\ io_num = 0
    /\ restarts = 0

\* lines 76-82 on the boot path
PayloadNext == esp_qrcode_generate("main")

\* the payload formatter applied to every drawn service name
PayloadSpec == PayloadInit /\ [][PayloadNext]_vars

(* ---------------------------------------------------------------------- *)
(* Vocabulary of the properties                                            *)
(* ---------------------------------------------------------------------- *)

\* the names of the calls of a log, in order
Names(log) == [i \in 1..Len(log) |-> log[i].fn]

\* this step is context c calling fn
Invoked(c, fn) ==
    /\ Len(calls'[c]) = Len(calls[c]) + 1
    /\ calls'[c][Len(calls'[c])].fn = fn

\* a provisioning session is Active: started and not yet deinitialised
Active == mgr_state \in {"started", "stopped"}

\* task t is executing start_provisioning
InStartProvisioning(t) == pc[t] \in {"sp_init", "sp_start", "sp_qr"}

\* a restart has made its disconnect call and its start call has not returned
RestartInProgress ==
    pc["button"] \in {"stop", "reset", "deinit", "sp_init", "sp_start"}

\* the six calls of one restart, in the order of button_task
RestartOrder ==
    <<"esp_wifi_disconnect", "wifi_prov_mgr_stop_provisioning",
      "wifi_prov_mgr_reset_provisioning", "wifi_prov_mgr_deinit",
      "wifi_prov_mgr_init", "wifi_prov_mgr_start_provisioning">>

\* a log without the calls to the QR renderer
Control(log) == SelectSeq(log, LAMBDA c : c.fn # "esp_qrcode_generate")

(* ---------------------------------------------------------------------- *)
(* C1                                                                      *)
(* ---------------------------------------------------------------------- *)

\* C1: in every step, wifi_prov_mgr_init and wifi_prov_mgr_start_provisioning
\* are invoked only while no session is Active, and app_main and button_task
\* are never both inside start_provisioning.  The code has two callers of
\* start_provisioning and no lock, so this is violated.
C1_StartNeverOverlaps ==
    [][ /\ \A t \in Tasks :
             (Invoked(t, "wifi_prov_mgr_init")
                \/ Invoked(t, "wifi_prov_mgr_start_provisioning")) => ~Active
        /\ ~(InStartProvisioning("main")' /\ InStartProvisioning("button")')
      ]_vars

(* ---------------------------------------------------------------------- *)
(* C2                                                                      *)
(* ---------------------------------------------------------------------- *)

\* C2: the calls button_task makes for its confirmed triggers are, trigger
\* after trigger, disconnect, stop, reset, deinit, init, start in this order,
\* none skipped, repeated or reordered; a trigger whose restart has run to
\* its end has made all six, and one in progress (or cut short by an abort)
\* has made a prefix of them.
C2_RestartCallOrder ==
    LET bc == Names(Control(calls["button"])) IN
    /\ \A i \in 1..Len(bc) : bc[i] = RestartOrder[((i - 1) % 6) + 1]
    /\ Len(bc) <= 6 * restarts
    /\ Len(bc) + 6 >= 6 * restarts
    /\ (restarts > 0 /\ pc["button"] = "disconnect")
           => Len(bc) = 6 * (restarts - 1)
    /\ pc["button"] \in {"none", "recv", "delay", "sp_qr"}
           => Len(bc) = 6 * restarts

\* a second trigger, confirmed while the session started by the first restart
\* was Active (the boot path started none), has run its restart to the end
C2_Witness ==
    /\ restarts = 2
    /\ pc["button"] = "recv"
    /\ Len(calls["button"]) = 14
    /\ Len(calls["main"]) = 3
    /\ calls["main"][2].fn = "esp_wifi_set_mode"
    /\ mgr_state = "started"

(* ---------------------------------------------------------------------- *)
(* C3                                                                      *)
(* ---------------------------------------------------------------------- *)

\* C3: while a restart is in progress, event_handler does not process a
\* WIFI_PROV_CRED_RECV notification (stated for the notifications that arrive
\* while a session is Active).  event_handler runs on the event loop with no
\* lock shared with button_task, so this is violated.
C3_NoCredRecvDuringRestart ==
    [][ (event_handler(<<"WIFI_PROV_EVENT", "WIFI_PROV_CRED_RECV">>) /\ Active)
            => ~RestartInProgress ]_vars

(* ---------------------------------------------------------------------- *)
(* C4                                                                      *)
(* ---------------------------------------------------------------------- *)

\* q is an initial part of r
IsPrefix(q, r) == Len(q) <= Len(r) /\ SubSeq(r, 1, Len(q)) = q

\* C4: while button_task is anywhere but waiting on the queue, nothing leaves
\* the queue; an item is taken only by the waiting worker, from the head, and
\* only when every restart begun before has made all its calls and returned;
\* an edge that arrives while the queue exists and has room is appended,
\* also in the middle of a restart (a restart begins with a receive, so the
\* queue exists throughout it); and, when no call fails, a queued item is eventually
\* taken by the worker.
C4_RestartsSerialised ==
    /\ [][ /\ pc["button"] # "recv" => IsPrefix(button_queue, button_queue')
           /\ Len(button_queue') < Len(button_queue) =>
                 /\ pc["button"] = "recv"
                 /\ pc'["button"] = "delay"
                 /\ button_queue' = Tail(button_queue)
                 /\ Len(calls["button"]) = 7 * restarts
           /\ (edges' = edges + 1 /\ isr_added /\ queue_created
                 /\ Len(button_queue) < QueueLength)
                 => button_queue' = Append(button_queue, BUTTON_GPIO)
         ]_vars
    /\ (~faulty /\ button_queue # <<>>) ~> (pc["button"] = "delay")

\* a press that began after the worker's sample, in the middle of the first
\* restart, has been queued and is still queued
C4_Witness ==
    /\ pc["button"] = "deinit"
    /\ button_queue = <<BUTTON_GPIO>>
    /\ edges = 2
    /\ restarts = 1
    /\ window_open

(* ---------------------------------------------------------------------- *)
(* C5                                                                      *)
(* ---------------------------------------------------------------------- *)

\* C5: the rising edges of one press, all delivered before the worker samples
\* the pin, result in at most one restart.  Every edge is queued and every
\* queued edge is sampled on its own, so a press that is held triggers one
\* restart per edge: this is violated.
C5_OneTriggerPerPress == press_triggers <= 1

(* ---------------------------------------------------------------------- *)
(* C6                                                                      *)
(* ---------------------------------------------------------------------- *)

\* the provisioning calls whose error the claim says is fatal
FatalCalls ==
    {"wifi_prov_mgr_init", "wifi_prov_mgr_start_provisioning",
     "wifi_prov_mgr_stop_provisioning", "wifi_prov_mgr_reset_provisioning"}

\* C6: a provisioning call that returned an error is the last call its
\* context makes.  The result of
\* wifi_prov_mgr_reset_provisioning is discarded, so this is violated.
C6_ErrorsAreFatal ==
    \A c \in Contexts : \A i \in 1..Len(calls[c]) :
        (calls[c][i].fn \in FatalCalls /\ calls[c][i].ret # ESP_OK)
            => i = Len(calls[c])

(* ---------------------------------------------------------------------- *)
(* C7                                                                      *)
(* ---------------------------------------------------------------------- *)

\* C7: once app_main is past the storage initialisation the store is
\* initialised.  The first nvs_flash_init result is checked only for the two
\* recoverable errors, so this is violated.
C7_StoreReadyPastInit ==
    pc["main"] \notin {"nvs_init", "nvs_erase", "nvs_reinit"} => nvs_ready

(* ---------------------------------------------------------------------- *)
(* C8                                                                      *)
(* ---------------------------------------------------------------------- *)

\* C8: after a boot whose query succeeded and reported stored credentials
\* (the out-parameter read at line 158 is true), and as long as
\* no button trigger is confirmed, no context has called init or start and no
\* session is Active; app_main sets station mode and then starts the radio;
\* and every WIFI_EVENT_STA_START delivered has issued one connect.
C8_ProvisionedBootConnects ==
    /\ (provisioned /\ restarts = 0) =>
          /\ mgr_state = "uninit"
          /\ calls["button"] = <<>>
          /\ Names(calls["main"]) =
                SubSeq(<<"wifi_prov_mgr_is_provisioned", "esp_wifi_set_mode",
                         "esp_wifi_start">>, 1, Len(calls["main"]))
          /\ Len(calls["main"]) >= 2
                => calls["main"][2].args = <<"WIFI_MODE_STA">>
          /\ pc["main"] = "loop" => Len(calls["main"]) = 3
    /\ Names(calls["event"]) = [i \in 1..sta_starts |-> "esp_wifi_connect"]

\* C8 as first stated, for every boot of a device that holds credentials:
\* as long as no button trigger is confirmed, app_main calls neither
\* wifi_prov_mgr_init nor wifi_prov_mgr_start_provisioning and no session is
\* Active.  A boot whose query fails takes the branch of line 158 into
\* start_provisioning although credentials are stored.
C8_StoredCredentialsBoot ==
    (creds_stored /\ restarts = 0) =>
        /\ ~Active
        /\ \A i \in 1..Len(calls["main"]) :
              calls["main"][i].fn \notin {"wifi_prov_mgr_init",
                                         "wifi_prov_mgr_start_provisioning"}

\* booted provisioned, radio started, one StationStarted delivered
C8_Witness ==
    /\ provisioned
    /\ restarts = 0
    /\ pc["main"] = "loop"
    /\ sta_starts = 1
    /\ Len(calls["event"]) = 1

(* ---------------------------------------------------------------------- *)
(* C9                                                                      *)
(* ---------------------------------------------------------------------- *)

\* C9: after a boot whose query succeeded and reported no credentials, and
\* as long as no button trigger is confirmed, app_main's calls are the query,
\* init, start and the QR payload, each once and in this order; start gets
\* the fixed proof-of-possession and the generated service name (PROV_ and
\* six more characters); the payload carries that name; at the end the
\* session is Active.
C9_UnprovisionedBootStarts ==
    LET mc == calls["main"] IN
    (/\ Len(mc) >= 1
     /\ mc[1].ret = ESP_OK
     /\ ~provisioned
     /\ restarts = 0) =>
        /\ Names(mc) =
              SubSeq(<<"wifi_prov_mgr_is_provisioned", "wifi_prov_mgr_init",
                       "wifi_prov_mgr_start_provisioning",
                       "esp_qrcode_generate">>, 1, Len(mc))
        /\ calls["button"] = <<>>
        /\ Len(mc) = 1 => mgr_state = "uninit"
        /\ Len(mc) >= 3 =>
              /\ mc[3].args = <<pop, service_name>>
              /\ Len(service_name) = 11
              /\ SubSeq(service_name, 1, 5) = <<"P", "R", "O", "V", "_">>
              /\ mc[3].ret = ESP_OK => mgr_state = "started"
        /\ Len(mc) >= 4 =>
              SubSeq(mc[4].args[1], 21, 31) = mc[3].args[2]
        /\ pc["main"] = "loop" =>
              /\ Len(mc) = 4
              /\ \A i \in 1..4 : mc[i].ret = ESP_OK
              /\ Active

\* the boot path has started the first session and shown its payload
C9_Witness ==
    /\ pc["main"] = "loop"
    /\ restarts = 0
    /\ ~provisioned
    /\ Len(calls["main"]) = 4
    /\ calls["main"][1].ret = ESP_OK
    /\ calls["main"][4].fn = "esp_qrcode_generate"
    /\ mgr_state = "started"

(* ---------------------------------------------------------------------- *)
(* C10                                                                     *)
(* ---------------------------------------------------------------------- *)

\* C10: a step in which event_handler handles anything but
\* WIFI_EVENT_STA_START (a provisioning event, an unrecognised event, an
\* address event) makes no call and changes nothing of the program: not the
\* call logs, the button queue, the service name, the session or any task.
C10_HandlerFrame ==
    [][ (events' = events + 1 /\ sta_starts' = sta_starts)
            => UNCHANGED <<calls, button_queue, service_name, mgr_state, pc,
                           aborted, creds_stored, io_num, nvs_ready,
                           registered, queue_created, isr_added, restarts,
                           provisioned>> ]_vars

\* two events other than StationStarted were handled while a session was
\* Active, and the event context has made no call
C10_Witness ==
    /\ events = 2
    /\ sta_starts = 0
    /\ mgr_state = "started"
    /\ calls["event"] = <<>>
    /\ pc["button"] = "recv"

(* ---------------------------------------------------------------------- *)
(* C11                                                                     *)
(* ---------------------------------------------------------------------- *)

\* this step is a rising edge of the pin
RisingEdge == edges' = edges + 1

\* C11: the button queue never holds more than 5 items, all of them the
\* button's pin number; a rising edge with the handler attached changes
\* nothing of the program but the queue (no task moves, no call is made);
\* with room the pin number is appended, with the queue full the edge is
\* dropped and the queue is unchanged; and a receive from the full queue
\* leaves room for the next edge.
C11_QueueBounded ==
    /\ [](/\ Len(button_queue) <= 5
          /\ \A i \in 1..Len(button_queue) : button_queue[i] = BUTTON_GPIO)
    /\ [][ /\ (RisingEdge /\ isr_added) =>
                /\ UNCHANGED <<pc, calls, mgr_state, io_num, restarts,
                               service_name, creds_stored, aborted>>
                /\ Len(button_queue) < 5
                      => button_queue' = Append(button_queue, BUTTON_GPIO)
                /\ Len(button_queue) = 5 => button_queue' = button_queue
           /\ (Len(button_queue) = 5 /\ pc["button"] = "recv"
                 /\ pc'["button"] = "delay")
                => Len(button_queue') = 4
         ]_vars

\* the worker holds one item, five more are queued, and one edge found the
\* queue full and was dropped
C11_Witness ==
    /\ Len(button_queue) = 5
    /\ edges = 8
    /\ dropped = 1
    /\ pc["button"] = "delay"
    /\ restarts = 0
    /\ pc["main"] = "loop"

(* ---------------------------------------------------------------------- *)
(* C12                                                                     *)
(* ---------------------------------------------------------------------- *)

\* the positions of the double quotes of text s
Quotes(s) == {i \in 1..Len(s) : s[i] = "\""}

\* the first double quote of s at or after position i (0 when there is none)
NextQuote(s, i) ==
    IF \E j \in Quotes(s) : j >= i
    THEN CHOOSE j \in Quotes(s) :
            j >= i /\ \A k \in Quotes(s) : k >= i => j <= k
    ELSE 0

RECURSIVE ParseMembers(_, _)
\* the members "key":"value" of s from position i on, as <<key, value>> pairs,
\* separated by commas and closed by a brace; <<"error">> marks text
\* that is not of this form
ParseMembers(s, i) ==
    LET k1 == NextQuote(s, i)
        k2 == NextQuote(s, k1 + 1)
        v1 == NextQuote(s, k2 + 1)
        v2 == NextQuote(s, v1 + 1)
    IN  IF k1 # i \/ k2 = 0 \/ v1 # k2 + 2 \/ v2 = 0 \/ v2 >= Len(s)
        THEN <<"error">>
        ELSE IF s[k2 + 1] # ":" THEN <<"error">>
        ELSE LET member == <<SubSeq(s, k1 + 1, k2 - 1),
                             SubSeq(s, v1 + 1, v2 - 1)>>
             IN  IF s[v2 + 1] = "}" /\ v2 + 1 = Len(s)
                 THEN <<member>>
                 ELSE IF s[v2 + 1] = ","
                 THEN <<member>> \o ParseMembers(s, v2 + 2)
                 ELSE <<"error">>

\* the members of the JSON object s, whose strings hold no escapes
ParseObject(s) ==
    IF Len(s) >= 2 /\ s[1] = "{" THEN ParseMembers(s, 2) ELSE <<"error">>

\* C12: for every service name of 0 to 11 characters of the generator's
\* alphabet, the payload handed to the QR renderer parses as an object of
\* exactly the four members ver, name, pop, transport, in this order and with
\* the fixed version, that name, the fixed proof-of-possession and the fixed
\* transport as values, and it is shorter than the 150-byte buffer: nothing
\* was cut off.
C12_PayloadFits ==
    pc["main"] = "loop" =>
        LET payload == calls["main"][4].args[1] IN
        /\ calls["main"][4].fn = "esp_qrcode_generate"
        /\ Len(service_name) <= 11
        /\ Len(payload) < 150
        /\ Len(payload) = 57 + Len(service_name)
        /\ ParseObject(payload) =
              << <<<<"v", "e", "r">>, <<"v", "1">>>>,
                 <<<<"n", "a", "m", "e">>, service_name>>,
                 <<<<"p", "o", "p">>,
                   <<"a", "b", "c", "d", "1", "2", "3", "4">>>>,
                 <<<<"t", "r", "a", "n", "s", "p", "o", "r", "t">>,
                   <<"b", "l", "e">>>> >>

\* the payload of a service name of the full 11 characters has been formatted
C12_Witness ==
    /\ pc["main"] = "loop"
    /\ Len(service_name) = 11
    /\ Len(calls["main"]) = 4
    /\ Len(calls["main"][4].args[1]) = 68

(* ---------------------------------------------------------------------- *)
(* C13                                                                     *)
(* ---------------------------------------------------------------------- *)

\* the value of an uppercase hexadecimal digit; 16 for any other character
UpperHexValue(c) ==
    CASE c = "0" -> 0  [] c = "1" -> 1  [] c = "2" -> 2  [] c = "3" -> 3
      [] c = "4" -> 4  [] c = "5" -> 5  [] c = "6" -> 6  [] c = "7" -> 7
      [] c = "8" -> 8  [] c = "9" -> 9  [] c = "A" -> 10 [] c = "B" -> 11
      [] c = "C" -> 12 [] c = "D" -> 13 [] c = "E" -> 14 [] c = "F" -> 15
      [] OTHER -> 16

\* app_main has passed its call of get_device_service_name (line 139)
NameGenerated ==
    pc["main"] \notin {"nvs_init", "nvs_erase", "nvs_reinit", "event_setup",
                       "wifi_init", "service_name"}

\* C13: once generated, the service name is the five characters PROV_
\* followed by six uppercase hexadecimal digits that read, two by two, as
\* bytes 3, 4 and 5 of the hardware address; it is 11 characters long, so
\* with its terminator it fills the 12-byte buffer exactly and nothing is cut
\* off; and every address with the same bytes 3, 4, 5, whatever its bytes 0,
\* 1, 2, yields this same name.
C13_ServiceNameFormat ==
    NameGenerated =>
        /\ Len(service_name) = 11
        /\ Len(service_name) + 1 <= 12
        /\ SubSeq(service_name, 1, 5) = <<"P", "R", "O", "V", "_">>
        /\ \A k \in 0..2 :
              /\ UpperHexValue(service_name[6 + 2 * k]) < 16
              /\ UpperHexValue(service_name[7 + 2 * k]) < 16
              /\ 16 * UpperHexValue(service_name[6 + 2 * k])
                    + UpperHexValue(service_name[7 + 2 * k]) = mac[4 + k]
        /\ \A a, b, c \in ByteSamples :
              get_device_service_name(<<a, b, c, mac[4], mac[5], mac[6]>>,
                                      ServiceNameSize) = service_name

\* the name of an address whose bytes 0..2 differ from its bytes 3..5 has
\* been generated and handed to the provisioning manager
C13_Witness ==
    /\ mac = <<255, 171, 9, 9, 171, 0>>
    /\ service_name = <<"P", "R", "O", "V", "_", "0", "9", "A", "B", "0", "0">>
    /\ pc["main"] = "loop"
    /\ calls["main"][3].fn = "wifi_prov_mgr_start_provisioning"
    /\ calls["main"][3].args[2] = service_name

(* ---------------------------------------------------------------------- *)
(* C14                                                                     *)
(* ---------------------------------------------------------------------- *)

\* the number of calls of fn in a log
Count(log, fn) == Len(SelectSeq(log, LAMBDA c : c.fn = fn))

\* the worker is inside the restart sequence of lines 106-108
InRestart ==
    pc["button"] \in {"disconnect", "stop", "reset", "deinit",
                      "sp_init", "sp_start", "sp_qr"}

\* C14: the worker starts its settle delay only by taking an item off the
\* queue; it enters the restart sequence only from the end of that delay and
\* only when the pin then reads high, and when the pin reads high it does
\* enter it; when the pin reads low it goes back to waiting and no context's
\* calls change; the worker makes calls only inside the restart sequence;
\* and wifi_prov_mgr_reset_provisioning is called by the worker alone, never
\* more often than the pin was sampled high, and never before a rising edge.
C14_RestartIffConfirmed ==
    /\ [][ /\ (pc["button"] # "delay" /\ pc'["button"] = "delay") =>
                /\ pc["button"] = "recv"
                /\ button_queue # <<>>
                /\ button_queue' = Tail(button_queue)
           /\ (~InRestart /\ InRestart') =>
                /\ pc["button"] = "delay"
                /\ gpio_level # 0
           /\ (pc["button"] = "delay" /\ pc'["button"] # "delay") =>
                IF gpio_level # 0
                THEN pc'["button"] = "disconnect" /\ restarts' = restarts + 1
                ELSE /\ pc'["button"] = "recv"
                     /\ calls' = calls
                     /\ restarts' = restarts
           /\ calls'["button"] # calls["button"] => InRestart
           /\ restarts' # restarts => pc["button"] = "delay"
         ]_vars
    /\ [](/\ Count(calls["main"], "wifi_prov_mgr_reset_provisioning") = 0
          /\ Count(calls["event"], "wifi_prov_mgr_reset_provisioning") = 0
          /\ Count(calls["button"], "wifi_prov_mgr_reset_provisioning")
                <= restarts
          /\ Count(calls["button"], "esp_wifi_disconnect") <= restarts
          /\ restarts <= edges)

\* after two rising edges the worker is waiting again with an empty queue,
\* the pin low, and a single restart, from disconnect to the QR code, made
C14_Witness ==
    /\ edges = 2
    /\ restarts = 1
    /\ gpio_level = 0
    /\ button_queue = <<>>
    /\ pc["button"] = "recv"
    /\ Names(calls["button"]) = RestartOrder \o <<"esp_qrcode_generate">>

(* ---------------------------------------------------------------------- *)
(* C15                                                                     *)
(* ---------------------------------------------------------------------- *)

\* the last call the worker made
LastButtonCall == calls["button"][Len(calls["button"])]

\* the worker's own wifi_prov_mgr_start_provisioning has just returned ESP_OK
ButtonStarted ==
    /\ pc["button"] = "sp_qr"
    /\ calls["button"] # <<>>
    /\ LastButtonCall.fn = "wifi_prov_mgr_start_provisioning"
    /\ LastButtonCall.ret = ESP_OK

\* C15: in fault-free runs with button_task scheduled fairly, a dequeued
\* event whose sample was high leads, whatever the state of the provisioning
\* manager (never initialised, initialised, started) and of the credential
\* store, to the worker's call of wifi_prov_mgr_start_provisioning with
\* a session Active, and from there to the worker waiting on the queue again
\* with the session still Active.
C15_RestartCompletes ==
    /\ (pc["button"] = "disconnect") ~> (ButtonStarted /\ Active)
    /\ ButtonStarted ~> (pc["button"] = "recv" /\ mgr_state = "started")

\* after a boot that found credentials and never initialised the manager, a
\* confirmed press has run its restart to the end: the session is Active and
\* the worker waits on the queue
C15_Witness ==
    /\ ~faulty
    /\ provisioned
    /\ Names(calls["main"]) = <<"wifi_prov_mgr_is_provisioned",
                                "esp_wifi_set_mode", "esp_wifi_start">>
    /\ restarts = 1
    /\ Names(calls["button"]) = RestartOrder \o <<"esp_qrcode_generate">>
    /\ pc["button"] = "recv"
    /\ mgr_state = "started"

(* ---------------------------------------------------------------------- *)
(* C16                                                                     *)
(* ---------------------------------------------------------------------- *)

\* the number of esp_wifi_connect calls context c has made
Connects(c) == Count(calls[c], "esp_wifi_connect")

\* C16: in every step the event context's number of esp_wifi_connect calls
\* grows by exactly the number of WIFI_EVENT_STA_START events the step
\* handled (one or none), so a step handling any other event, or no event,
\* adds no connect; app_main and button_task never call esp_wifi_connect; and
\* esp_wifi_connect is the only call the event context ever makes.
C16_ConnectOncePerStaStart ==
    /\ [][ /\ Connects("event")' = Connects("event") + (sta_starts' - sta_starts)
           /\ sta_starts' # sta_starts =>
                 /\ sta_starts' = sta_starts + 1
                 /\ events' = events + 1
           /\ (events' = events + 1 /\ sta_starts' = sta_starts)
                 => calls'["event"] = calls["event"]
         ]_vars
    /\ [](/\ Connects("main") = 0
          /\ Connects("button") = 0
          /\ Connects("event") = Len(calls["event"])
          /\ Connects("event") <= events)

\* a StationStarted and one other event have been handled after a restart
\* that disconnected the station: one connect was made
C16_Witness ==
    /\ events = 2
    /\ sta_starts = 1
    /\ Connects("event") = 1
    /\ Count(calls["button"], "esp_wifi_disconnect") = 1

(* ---------------------------------------------------------------------- *)
(* C17                                                                     *)
(* ---------------------------------------------------------------------- *)

\* the provisioning manager is initialised: wifi_prov_mgr_init has returned
\* ESP_OK and wifi_prov_mgr_deinit has not been called since
Initialised == mgr_state # "uninit"

\* C17: every step in which button_task calls
\* wifi_prov_mgr_stop_provisioning, wifi_prov_mgr_reset_provisioning or
\* wifi_prov_mgr_deinit is taken while the provisioning manager is
\* initialised.  button_task makes the three calls on every confirmed press,
\* whether or not anyone has called wifi_prov_mgr_init.
C17_TeardownOnlyWhenInitialised ==
    [][ \A fn \in {"wifi_prov_mgr_stop_provisioning",
                   "wifi_prov_mgr_reset_provisioning",
                   "wifi_prov_mgr_deinit"} :
            Invoked("button", fn) => Initialised ]_vars

(* ---------------------------------------------------------------------- *)
(* C18                                                                     *)
(* ---------------------------------------------------------------------- *)

\* the calls of wifi_prov_mgr_start_provisioning in a log
StartCalls(log) ==
    SelectSeq(log, LAMBDA c : c.fn = "wifi_prov_mgr_start_provisioning")

\* C18: button_task runs, and the interrupt handler is attached, only with
\* button_queue holding a queue and the service name generated; an item enters
\* or leaves the queue only with the queue created, and enters it only with
\* the handler attached; every call of wifi_prov_mgr_start_provisioning, by
\* app_main or by button_task, is made after the service name was generated
\* and passes that name, which is 11 characters long; and once generated the
\* name never changes.  xQueueCreate (line 151) may return NULL and
\* button_task, created at line 152, hands button_queue to xQueueReceive.
C18_CreatedBeforeUse ==
    /\ [](/\ pc["button"] # "none" => (queue_created /\ NameGenerated)
          /\ isr_added => (queue_created /\ NameGenerated)
          /\ \A c \in Contexts :
                \A i \in 1..Len(StartCalls(calls[c])) :
                    /\ StartCalls(calls[c])[i].args[2] = service_name
                    /\ Len(StartCalls(calls[c])[i].args[2]) = 11)
    /\ [][ /\ Len(button_queue') > Len(button_queue)
                => (queue_created /\ isr_added)
           /\ Len(button_queue') < Len(button_queue) => queue_created
           /\ (\E t \in Tasks :
                  Invoked(t, "wifi_prov_mgr_start_provisioning"))
                => (NameGenerated /\ Len(service_name) = 11)
           /\ NameGenerated => service_name' = service_name
         ]_vars

(* ---------------------------------------------------------------------- *)
(* C19                                                                     *)
(* ---------------------------------------------------------------------- *)

\* the calls of start_provisioning, in order
ProvisioningPath ==
    <<"wifi_prov_mgr_init", "wifi_prov_mgr_start_provisioning",
      "esp_qrcode_generate">>

\* the calls of the else branch of line 161, in order
StationPath == <<"esp_wifi_set_mode", "esp_wifi_start">>

\* C19: app_main's first call is the query; from then on, when the query
\* returned an error or reported false, app_main is in start_provisioning or
\* past it and its further calls are an initial part of init, start, QR code,
\* with none of the station-mode calls; when the query returned ESP_OK and
\* reported true, app_main is in the else branch or past it and its further
\* calls are an initial part of set_mode, wifi_start, with no init or start;
\* and when app_main reaches its idle loop it has made all the calls of that
\* one path.
C19_BootTakesOnePath ==
    calls["main"] # <<>> =>
        LET query == calls["main"][1]
            rest  == Tail(Names(calls["main"]))
        IN  /\ query.fn = "wifi_prov_mgr_is_provisioned"
            /\ query.ret # ESP_OK => ~provisioned
            /\ IF query.ret # ESP_OK \/ ~provisioned
               THEN /\ IsPrefix(rest, ProvisioningPath)
                    /\ pc["main"] \in {"sp_init", "sp_start", "sp_qr", "loop"}
                    /\ pc["main"] = "loop" => rest = ProvisioningPath
               ELSE /\ IsPrefix(rest, StationPath)
                    /\ pc["main"] \in {"set_mode", "wifi_start", "loop"}
                    /\ pc["main"] = "loop" => rest = StationPath

\* the query failed on a device that holds credentials, and app_main went
\* through start_provisioning to its idle loop
C19_Witness ==
    /\ calls["main"] # <<>>
    /\ calls["main"][1].ret = ESP_FAIL
    /\ creds_stored
    /\ restarts = 0
    /\ pc["main"] = "loop"
    /\ Tail(Names(calls["main"])) = ProvisioningPath
    /\ mgr_state = "started"

====
